---- MODULE Spec2Model ----
(***************************************************************************)
(* A model of the RTM3004 oscilloscope driver (src/RTM3004.py): the        *)
(* write/ask transaction layer, the completion wait, the clipping          *)
(* correction loops fixClipping / fixMathClipping, and the composites      *)
(* simpleSetup / setSimpleScale, run against a simulated instrument that   *)
(* quantizes commanded scales; and, as a specification of its own, the     *)
(* round trip setVerticalScale / getVerticalScale.                         *)
(*                                                                         *)
(* Texts on the wire are sequences of one-character strings.  Floats of    *)
(* the driver are natural numbers counting units of 1e-5 V (0.0125 V is    *)
(* 1250), which holds 1.25 * r exactly for every r with three decimals.    *)
(* Instrument scales are natural numbers of millivolts.                    *)
(***************************************************************************)
EXTENDS Integers, Sequences, FiniteSets, TLC

VARIABLES
    pc,                       \* position of the single caller: "new", "idle" once
                              \* constructed, inside an operation, then "done" or "failed"
    connected,                \* self.connected
    SimpleMeasurementStatus,  \* self.SimpleMeasurementStatus
    SimpleSetupStatus,        \* self.SimpleSetupStatus
    wavevolt,                 \* self.wavevolt (units of 1e-5 V)
    frame,                    \* the operation in progress and its arguments
    inscale,                  \* fixClipping's local inscale (units of 1e-5 V)
    outcome,                  \* "none" | "running" | "returned" | "raised"
    retval,                   \* the value returned by the last operation
    err,                      \* the exception that ended the last operation
    log,                      \* transmissions and sleeps of the current operation
                              \* (of its current correction run, in setSimpleScale)
    firstMsg,                 \* the first message transmitted on the Session
    polls,                    \* *OPC? polls of the wait() in progress
    iters,                    \* corrective iterations of the run in progress
    chanScale,                \* instrument: vertical scale per channel (mV)
    mathScale,                \* instrument: scale of the math waveform (mV)
    instStep,                 \* instrument: its supported step (mV)
    instT,                    \* instrument: clipping threshold (mV)
    sim,                      \* the instrument answered truthfully and well-formed so far
    faulted,                  \* the transport failed during the current operation
    response,                 \* the reply text of the last query answered
    sentinels,                \* overflow readings seen by the run in progress
    seenScale,                \* instrument scale at the last read-back (mV)
    outstanding,              \* queries transmitted whose reply has not arrived
    runs,                     \* the correction runs setSimpleScale has completed
    fine                      \* the scale of an instrument with sub-millivolt
                              \* steps (units of 1e-5 V), see the round trip

vars == <<pc, connected, SimpleMeasurementStatus, SimpleSetupStatus, wavevolt,
          frame, inscale, outcome, retval, err, log, firstMsg, polls, iters,
          chanScale, mathScale, instStep, instT, sim, faulted, response,
          sentinels, seenScale, outstanding, runs, fine>>

drv == <<connected, SimpleMeasurementStatus, SimpleSetupStatus, wavevolt>>
inst == <<chanScale, mathScale, instStep, instT>>

-----------------------------------------------------------------------------
(* Bounds of the model *)

\* multiples of the instrument's step tried as scales in the round trip
MaxMultiple == 6
\* scales (mV) the instrument holds at the start of a single corrective step
MaxReadback == 60
\* corrective iterations explored in one correction run
MaxIter == 2
\* unanswered *OPC? polls explored in one wait()
MaxPolls == 1

-----------------------------------------------------------------------------
(* Texts *)

LF == "\n"
Digits == <<"0", "1", "2", "3", "4", "5", "6", "7", "8", "9">>
IsDigit(c) == \E d \in 1..10 : Digits[d] = c
DigitVal(c) == (CHOOSE d \in 1..10 : Digits[d] = c) - 1

RECURSIVE NatChars(_)
NatChars(n) ==
    IF n < 10 THEN <<Digits[n + 1]>>
    ELSE NatChars(n \div 10) \o <<Digits[(n % 10) + 1]>>

\* the text "9.91E+37\n" that checkClipping compares with
Sentinel == <<"9", ".", "9", "1", "E", "+", "3", "7", LF>>
\* the text "1\n" that wait() compares with
OpcDone == <<"1", LF>>

\* units of 1e-5 V in one millivolt
PerMilli == 100
\* millivolts in one volt
PerUnit == 1000

\* The values x (units of 1e-5 V) with a decimal tie at the third place for
\* which the double lies above the tie, so "%.3f" rounds up: computed from
\* the doubles 1.25 * float(t) for every read-back t up to 1.600, and from
\* the literals 0.0005, 0.0015 and 0.0035.
TiesUp == {50, 150, 250, 350, 1250, 1750, 3250, 4250, 4750, 5250, 6750, 7250,
           8250, 8750, 9750, 10250, 12750, 13250, 13750, 14250, 15750, 16250,
           16750, 17250, 18750, 19250, 19750, 20250, 20750, 21250, 25250,
           25750, 26250, 26750, 27250, 27750, 28250, 28750, 29250, 31750,
           32250, 32750, 33250, 33750, 34250, 34750, 37750, 38250, 38750,
           39250, 39750, 40250, 40750, 41250, 41750, 42250, 42750, 43750,
           44250, 44750, 45250, 45750, 46250, 46750, 47250, 47750, 48250,
           48750, 49250, 49750, 50250, 50750, 56750, 57250, 57750, 58250,
           59250, 60250, 61250, 62250, 63250, 64250, 65250, 66250, 67250,
           68250, 68750, 69250, 69750, 70250, 81750, 82250, 82750, 83250,
           83750, 84250, 84750, 85250, 85750, 93750, 94250, 94750, 95250,
           95750, 96250, 96750, 97250, 97750, 98250, 98750, 99250, 99750,
           100750, 101250, 107250, 108250, 109250, 110250, 111250, 112250,
           113250, 114250, 115250, 116250, 118750, 119750, 120750, 121750,
           122750, 123750, 124750, 125750, 126750, 127750, 128750, 129750,
           130750, 131750, 132250, 132750, 133250, 133750, 134250, 134750,
           135250, 135750, 136250, 136750, 137250, 137750, 138250, 138750,
           139250, 139750, 140250, 143750, 145750, 147750, 149750, 151750,
           153750, 155750, 157250, 157750, 158250, 159250, 159750, 160250,
           161250, 161750, 162250, 163250, 163750, 164250, 165250, 165750,
           166250, 167250, 167750, 168250, 168750, 169250, 169750, 170250,
           170750, 171250, 171750, 182250, 183250, 184250, 185250, 186250,
           187250, 188250, 189250, 190250, 191250, 192250, 193250, 193750,
           194250, 194750, 195250, 195750, 196250, 196750, 197250, 197750,
           198250, 198750, 199250, 199750}

\* round(x) to a whole number of millivolts as "%.3f" does
RoundMilli(x) ==
    LET q == x \div PerMilli
        r == x % PerMilli
    IN IF r > 50 \/ (r = 50 /\ x \in TiesUp) THEN q + 1 ELSE q

\* m millivolts written with three decimals: "0.013"
MilliText(m) ==
    LET f == m % PerUnit
    IN NatChars(m \div PerUnit) \o <<".">>
       \o <<Digits[(f \div 100) + 1], Digits[((f \div 10) % 10) + 1], Digits[(f % 10) + 1]>>

\* "%.3f" % x
Format3f(x) == MilliText(RoundMilli(x))

\* "%.2f" % x (no value explored lies on a tie)
Format2f(x) ==
    LET h == (x + 500) \div 1000
    IN NatChars(h \div 100) \o <<".">>
       \o <<Digits[((h \div 10) % 10) + 1], Digits[(h % 10) + 1]>>

RECURSIVE Pow10(_)
Pow10(n) == IF n = 0 THEN 1 ELSE 10 * Pow10(n - 1)

\* "%.2e" % x: three significant digits and the decimal exponent (no value
\* explored lies on a tie)
Format2e(x) ==
    LET d == Len(NatChars(x))
        r == IF d <= 3 THEN x * Pow10(3 - d)
             ELSE (x + 5 * Pow10(d - 4)) \div Pow10(d - 3)
        m == IF r = 1000 THEN 100 ELSE r
        e == IF x = 0 THEN 0 ELSE (IF r = 1000 THEN d + 1 ELSE d) - 6
        a == IF e < 0 THEN 0 - e ELSE e
    IN <<Digits[(m \div 100) + 1], ".", Digits[((m \div 10) % 10) + 1],
         Digits[(m % 10) + 1], "e", IF e < 0 THEN "-" ELSE "+",
         Digits[(a \div 10) + 1], Digits[(a % 10) + 1]>>

RECURSIVE StripZeros(_)
StripZeros(s) ==
    IF Len(s) > 1 /\ s[Len(s)] = "0" THEN StripZeros(SubSeq(s, 1, Len(s) - 1))
    ELSE s

\* f"{x}": the shortest decimal text of the float, "0.0125", "0.01", "1.0"
FormatRepr(x) ==
    LET f == x % (PerMilli * PerUnit)
        five == <<Digits[(f \div 10000) + 1], Digits[((f \div 1000) % 10) + 1],
                  Digits[((f \div 100) % 10) + 1], Digits[((f \div 10) % 10) + 1],
                  Digits[(f % 10) + 1]>>
    IN NatChars(x \div (PerMilli * PerUnit)) \o <<".">> \o StripZeros(five)

\* s[:-1]
DropLast(s) == IF Len(s) = 0 THEN <<>> ELSE SubSeq(s, 1, Len(s) - 1)

RECURSIVE StripSpace(_)
StripSpace(s) ==
    IF Len(s) > 0 /\ s[Len(s)] = LF THEN StripSpace(SubSeq(s, 1, Len(s) - 1))
    ELSE IF Len(s) > 0 /\ s[1] = LF THEN StripSpace(SubSeq(s, 2, Len(s)))
    ELSE s

RECURSIVE DigitsVal(_)
DigitsVal(s) ==
    IF Len(s) = 0 THEN 0
    ELSE 10 * DigitsVal(SubSeq(s, 1, Len(s) - 1)) + DigitVal(s[Len(s)])

\* the fraction digits s as units of 1e-5 (at most five digits)
FracVal(s) ==
    LET p == <<10000, 1000, 100, 10, 1>>
    IN IF Len(s) = 0 THEN 0 ELSE DigitsVal(s) * p[Len(s)]

\* float(s) for plain decimal texts: surrounding whitespace is stripped,
\* then digits, optionally a point and digits; anything else (the empty
\* text, letters) raises ValueError.
ParseFloat(s) ==
    LET t == StripSpace(s)
        dots == {i \in 1..Len(t) : t[i] = "."}
        d == IF dots = {} THEN Len(t) + 1 ELSE CHOOSE i \in dots : TRUE
        ip == SubSeq(t, 1, d - 1)
        fp == SubSeq(t, d + 1, Len(t))
        wellformed == /\ Cardinality(dots) <= 1
                      /\ Len(ip) + Len(fp) > 0
                      /\ Len(fp) <= 5
                      /\ \A i \in 1..Len(ip) : IsDigit(ip[i])
                      /\ \A i \in 1..Len(fp) : IsDigit(fp[i])
    IN IF wellformed
       THEN [ok |-> TRUE, val |-> DigitsVal(ip) * PerMilli * PerUnit + FracVal(fp)]
       ELSE [ok |-> FALSE, val |-> 0]

-----------------------------------------------------------------------------
(* Messages and sleeps *)

Msg(k, c, n, a) == [kind |-> k, cmd |-> c, n |-> n, arg |-> a]
NoMsg == Msg("none", "", 0, <<>>)
Sleep(ms) == Msg("sleep", "", ms, <<>>)

\* time.sleep(0.01) in write(), in milliseconds
WriteSettleMs == 10
\* time.sleep(2) after the starting scale, in milliseconds
StartSettleMs == 2000
\* time.sleep(3) after a corrective scale, in milliseconds
StepSettleMs == 3000
\* self.wait(10) in the correction loops, in milliseconds
FixWaitMs == 10000
\* the default dt=0.5 of wait(), in milliseconds
DefaultWaitMs == 500

\* a scale write that always addresses channel 1
ScaleWrite_first(channel, div) == Msg("write", "CHAN:SCAL", 1, Format3f(div))

RstCmd == Msg("write", "*RST", 0, <<>>)
OpcQuery == Msg("query", "*OPC?", 0, <<>>)
\* "CHAN%i:SCAL %.3f" % (channel, div)
ScaleWrite(channel, div) == Msg("write", "CHAN:SCAL", channel, Format3f(div))
\* "CHAN%i:SCAL?" % (channel)
ScaleQuery(channel) == Msg("query", "CHAN:SCAL?", channel, <<>>)
\* "MEAS%i:RES?" % (index)
ResultQuery(index) == Msg("query", "MEAS:RES?", index, <<>>)
\* f"CALC:MATH{index}:SCAL {scale}"
MathScaleWrite(index, scale) == Msg("write", "CALC:MATH:SCAL", index, FormatRepr(scale))
\* f"CALC:MATH{index}:SCAL?"
MathScaleQuery(index) == Msg("query", "CALC:MATH:SCAL?", index, <<>>)

\* The commands of the composites; a keyword argument ("ON", "DCLimit") is
\* kept as one piece of text.
\* "CHAN%i:STAT %s" % (channel, status)
ChanStat(channel, status) == Msg("write", "CHAN:STAT", channel, <<status>>)
\* "CHAN%i:COUP %s" % (channel, coup)
ChanCoup(channel, coup) == Msg("write", "CHAN:COUP", channel, <<coup>>)
\* "TRIG:%s:MODE %s" and the like, for trigger source "A"
Trig(what, value) == Msg("write", "TRIG:A:" \o what, 0, <<value>>)
\* "TRIG:%s:SOUR CH%i" % (src, channel)
\* "MEAS%i:SOUR CH%i" and "MEAS%i:MAIN %s"
MeasSource(index, channel) == Msg("write", "MEAS:SOUR", index, <<"CH">> \o NatChars(channel))
MeasMain(index, mode) == Msg("write", "MEAS:MAIN", index, <<mode>>)
TrigSource(channel) == Msg("write", "TRIG:A:SOUR", channel, <<"CH">>)
\* "TRIG:A:LEV%i:VAL %.2f" % (channel, level)
TrigLevel(channel, level) == Msg("write", "TRIG:A:LEV:VAL", channel, Format2f(level))
\* "CHAN%i:OFFS %.2f" % (channel, offset)
ChanOffset(channel, offset) == Msg("write", "CHAN:OFFS", channel, Format2f(offset))
\* "WGEN:OUTP %s", "WGEN:FUNC %s", "WGEN:BURS %s"
Wgen(what, value) == Msg("write", "WGEN:" \o what, 0, <<value>>)
\* "WGEN:VOLT %.2e", "WGEN:VOLT:OFFS %.2e", "WGEN:FREQ %.2e", "WGEN:BURS:ITIM %.2e"
WgenSci(what, x) == Msg("write", "WGEN:" \o what, 0, Format2e(x))
\* "WGEN:BURS:NCYC %i" % (cycles)
BurstCount(cycles) == Msg("write", "WGEN:BURS:NCYC", 0, NatChars(cycles))

\* a write that returns as soon as the command is transmitted
write_nosettle(l, m, delivered) ==
    [log |-> IF delivered THEN Append(l, m) ELSE l, raised |-> ~delivered]

\* a write that swallows the transport failure and sends the command again
write_retry(l, m, delivered) ==
    [log |-> IF delivered THEN l \o <<m, Sleep(WriteSettleMs)>>
             ELSE l \o <<m, m, Sleep(WriteSettleMs)>>,
     raised |-> FALSE]

\* write(message) on the trace l: the transmission, then the settling sleep;
\* a transport failure (delivered = FALSE) raises out of write with nothing
\* delivered and no sleep
write(l, m, delivered) ==
    [log |-> IF delivered THEN l \o <<m, Sleep(WriteSettleMs)>> ELSE l,
     raised |-> ~delivered]
\* an ask that swallows the transport failure and returns an empty reply
ask_swallow(l, m, reply, answered) ==
    [log |-> Append(l, m), raised |-> FALSE,
     response |-> IF answered THEN reply ELSE <<>>,
     pending |-> IF answered THEN 0 ELSE 1]

\* ask(message) on the trace l: the query is transmitted and the reply, when
\* one arrives, is returned as it is; a transport failure (answered = FALSE)
\* raises out of ask
ask(l, m, reply, answered) ==
    [log |-> Append(l, m), raised |-> ~answered, response |-> reply,
     pending |-> IF answered THEN 0 ELSE 1]

\* a reset() that clears the status registers instead of resetting
reset_cls == Msg("write", "*CLS", 0, <<>>)

\* the message reset() writes
reset == RstCmd

FirstOf(m) == IF firstMsg = NoMsg THEN m ELSE firstMsg

\* the keyword parameters setMathScale(self, index=1, scale=1) accepts
SetMathScaleParams == {"index", "scale"}

\* a comparison that ignores the line terminator
checkClipping_stripped(reply) == StripSpace(reply) = DropLast(Sentinel)

\* a comparison of the number instead of the text
checkClipping_numeric(reply) ==
    StripSpace(reply) \in {<<"9", ".", "9", "1", "E", "+", "3", "7">>,
                           <<"9", ".", "9", "1", "0", "E", "+", "3", "7">>}

\* a test that takes every text that is no valid reading for clipping
checkClipping_failclosed(reply) ==
    ~(Len(reply) > 1 /\ IsDigit(reply[1]) /\ reply[Len(reply)] = LF) \/ reply = Sentinel

\* status = self.getMeasurementResult(index) == "9.91E+37\n"
checkClipping(reply) == reply = Sentinel

\* 1.25 * v, exact for every v with at most three decimals
Grow(v) == (5 * v) \div 4

\* no reply received yet
NoReply == <<"none">>
NoFrame == [op |-> "none", index |-> 0, channel |-> 0, scale |-> 0, dt |-> 0]
NoValue == [type |-> "none", num |-> 0, flag |-> FALSE]
FloatValue(x) == [type |-> "float", num |-> x, flag |-> FALSE]
TextValue == [type |-> "text", num |-> 0, flag |-> FALSE]
IntValue(n) == [type |-> "int", num |-> n, flag |-> FALSE]
BoolValue(b) == [type |-> "bool", num |-> 0, flag |-> b]

-----------------------------------------------------------------------------
(* The simulated instrument *)

Channels == {1, 2}
MathWaves == {1, 2}
\* supported steps of the simulated instruments (mV)
Steps == {1, 5}
\* clipping thresholds of the simulated instruments (mV)
Thresholds == {15, 20}

Max(a, b) == IF a >= b THEN a ELSE b

\* the supported scale (mV) nearest to x (units of 1e-5 V): a multiple of
\* step, never below one step
Quantize(x, step) ==
    LET s == step * PerMilli
    IN Max((2 * x + s) \div (2 * s), 1) * step

\* the scale the instrument holds after *RST
ResetScale(step) == Quantize(5 * PerMilli, step)

\* the scale the instrument applies for the argument text of a scale write
Applied(arg, step, old) ==
    LET p == ParseFloat(arg)
    IN IF p.ok THEN Quantize(p.val, step) ELSE old

\* a well-formed scale reply: three decimals and the line terminator
ScaleReply(mv) == MilliText(mv) \o <<LF>>
\* some valid, non-overflow measurement text
Reading == <<"2", ".", "4", "0", "E", "-", "0", "2", LF>>
Garbage == <<"E", "R", "R", LF>>
\* an empty line: the terminator alone
EmptyLine == <<LF>>

\* what the measurement slot of a channel truthfully reports
TrueMeas(ch) == IF chanScale[ch] < instT THEN Sentinel ELSE Reading

\* An instrument with sub-millivolt steps, for the scale round trip: its
\* step and its scales are in units of 1e-5 V, and it reports a scale with
\* as many decimals as the scale has.
FineSteps == {50, 100, 500}
NoFine == [step |-> 0, scale |-> [c \in Channels |-> 0]]
\* the supported scale nearest to x: a multiple of step s, never below one step
FineQuantize(x, s) == Max((2 * x + s) \div (2 * s), 1) * s
FineApplied(arg, s, old) ==
    LET p == ParseFloat(arg)
    IN IF p.ok THEN FineQuantize(p.val, s) ELSE old
FineReply(x) == FormatRepr(x) \o <<LF>>

\* reply texts a measurement query may get
MeasReplies ==
    {Sentinel, Reading, DropLast(Sentinel), Garbage, EmptyLine, <<>>,
     <<"9", ".", "9", "1", "0", "E", "+", "3", "7", LF>>}

\* reply texts a scale query may get while the scale is mv
ScaleReplies(mv) == {ScaleReply(mv), MilliText(mv), EmptyLine, <<>>, Garbage}

\* reply texts an *OPC? query may get
OpcReplies == {OpcDone, <<"0", LF>>, <<"1">>}

-----------------------------------------------------------------------------
(* The instrument's reaction to a delivered message *)

\* the channel scales cs after the instrument received m
ChanStep(cs, m) ==
    IF m.cmd = "CHAN:SCAL" THEN [cs EXCEPT ![m.n] = Applied(m.arg, instStep, @)]
    ELSE IF m.cmd = "*RST" THEN [c \in Channels |-> ResetScale(instStep)]
    ELSE cs

ChanAfter(m) == ChanStep(chanScale, m)

\* the channel scales cs after the instrument received the messages ms
RECURSIVE ChanAfterAll(_, _)
ChanAfterAll(cs, ms) ==
    IF ms = <<>> THEN cs ELSE ChanAfterAll(ChanStep(cs, Head(ms)), Tail(ms))

MathAfter(m) ==
    IF m.cmd = "CALC:MATH:SCAL" THEN [mathScale EXCEPT ![m.n] = Applied(m.arg, instStep, @)]
    ELSE IF m.cmd = "*RST" THEN [w \in MathWaves |-> ResetScale(instStep)]
    ELSE mathScale

\* the instrument receives m when delivered, and is untouched otherwise
Deliver(m, delivered) ==
    /\ chanScale' = IF delivered THEN ChanAfter(m) ELSE chanScale
    /\ mathScale' = IF delivered THEN MathAfter(m) ELSE mathScale
    /\ UNCHANGED <<instStep, instT>>

\* an exception leaves the driver: the operation in progress is abandoned
Raise(e) ==
    /\ pc' = "failed"
    /\ outcome' = "raised"
    /\ err' = e
    /\ retval' = NoValue

\* the operation in progress returns v and the caller goes on with the Session
Resume(v) ==
    /\ pc' = "idle"
    /\ outcome' = "returned"
    /\ err' = ""
    /\ retval' = v

\* the operation in progress returns v to the caller, who ends the session
Return(v) ==
    /\ pc' = "done"
    /\ outcome' = "returned"
    /\ err' = ""
    /\ retval' = v

-----------------------------------------------------------------------------
(* Construction *)

Init ==
    /\ pc = "new"
    /\ connected = FALSE
    /\ SimpleMeasurementStatus = FALSE
    /\ SimpleSetupStatus = FALSE
    /\ wavevolt = 0
    /\ frame = NoFrame
    /\ inscale = 0
    /\ outcome = "none"
    /\ retval = NoValue
    /\ err = ""
    /\ log = <<>>
    /\ firstMsg = NoMsg
    /\ polls = 0
    /\ iters = 0
    /\ instStep \in Steps
    /\ instT \in Thresholds
    /\ chanScale = [c \in Channels |-> ResetScale(instStep)]
    /\ mathScale = [w \in MathWaves |-> ResetScale(instStep)]
    /\ sim = TRUE
    /\ faulted = FALSE
    /\ response = NoReply
    /\ sentinels = 0
    /\ seenScale = 0
    /\ outstanding = 0
    /\ runs = <<>>
    /\ fine = NoFine

\* __init__: open the resource, set the fields, reset()
Construct ==
    /\ pc = "new"
    /\ connected' = TRUE
    /\ SimpleMeasurementStatus' = FALSE
    /\ SimpleSetupStatus' = FALSE
    /\ wavevolt' = 0
    /\ frame' = [NoFrame EXCEPT !.op = "__init__"]
    /\ \E delivered \in BOOLEAN :
         LET w == write(<<>>, reset, delivered)
         IN /\ log' = w.log
            /\ firstMsg' = IF delivered THEN FirstOf(reset) ELSE firstMsg
            /\ Deliver(reset, delivered)
            /\ faulted' = ~delivered
            /\ sim' = delivered
            /\ IF w.raised THEN Raise("VisaIOError")
               ELSE /\ pc' = "idle"
                    /\ outcome' = "returned"
                    /\ err' = ""
                    /\ retval' = NoValue
    /\ UNCHANGED <<inscale, polls, iters, response, sentinels, seenScale, fine, runs, outstanding>>

-----------------------------------------------------------------------------
(* Inputs of the caller *)

\* The sessions explored: after construction any number of configuration
\* calls and then setSimpleScale, or one auto-ranging operation on a Session
\* that is fresh: no call made on it since its construction.
Fresh == pc = "idle" /\ frame.op = "__init__"

\* (index, channel) pairs as setSimpleScale passes them
FixArgs == {[index |-> 1, channel |-> 1], [index |-> 5, channel |-> 2]}
\* starting scales (units of 1e-5 V): 0.005, 0.01, 0.0125
StartScales == {500, 1000, 1250}

Begin(op, index, channel, scale) ==
    /\ frame' = [op |-> op, index |-> index, channel |-> channel, scale |-> scale,
                 dt |-> FixWaitMs]
    /\ polls' = 0
    /\ iters' = 0
    /\ sentinels' = 0
    /\ seenScale' = 0
    /\ runs' = <<>>

-----------------------------------------------------------------------------
(* checkClipping(index), called on its own *)

CallCheckClipping ==
    /\ Fresh
    /\ \E index \in {1, 5}, reply \in MeasReplies, answered \in BOOLEAN :
         LET q == ask(<<>>, ResultQuery(index), reply, answered)
         IN /\ Begin("checkClipping", index, 0, 0)
            /\ log' = q.log
            /\ firstMsg' = FirstOf(ResultQuery(index))
            /\ faulted' = ~answered
            /\ outstanding' = outstanding + q.pending
            /\ sim' = FALSE
            /\ response' = IF answered THEN q.response ELSE NoReply
            /\ IF q.raised THEN Raise("VisaIOError")
               ELSE Return(BoolValue(checkClipping(q.response)))
    /\ UNCHANGED <<drv, inst, inscale, fine>>

-----------------------------------------------------------------------------
(* What setSimpleScale runs *)

\* a guard that has been dropped
simpleScaleReady_always == TRUE

\* the guard of setSimpleScale: if not self.SimpleSetupStatus ... return 0
simpleScaleReady == SimpleSetupStatus

\* the starting scale 0.01 of the second run (units of 1e-5 V)
SimpleScaleStart == 1000

\* both runs started from the full amplitude and from 0.01
SimpleScaleRuns_unhalved ==
    <<[index |-> 5, channel |-> 2, scale |-> wavevolt],
      [index |-> 1, channel |-> 1, scale |-> SimpleScaleStart]>>

\* fixClipping(index=5, channel=2, scale=amp_scale / 2), then
\* fixClipping(index=1, channel=1, scale=0.01)
SimpleScaleRuns ==
    <<[index |-> 5, channel |-> 2, scale |-> wavevolt \div 2],
      [index |-> 1, channel |-> 1, scale |-> SimpleScaleStart]>>

\* what is kept of a completed run: its arguments, and whether the reading
\* that ended it was the sentinel
RunRecord(last) ==
    [index |-> frame.index, channel |-> frame.channel, scale |-> frame.scale,
     clipped |-> (last = Sentinel)]

-----------------------------------------------------------------------------
(* fixClipping(index, channel, scale) *)

\* lines 281-283 for a run started by setSimpleScale: apply the starting
\* scale, sleep 2 s, inscale = scale
StartFix(channel, scale) ==
    \E delivered \in BOOLEAN :
       LET m == ScaleWrite(channel, scale)
           w == write(<<>>, m, delivered)
       IN /\ Deliver(m, delivered)
          /\ faulted' = ~delivered
          /\ sim' = delivered
          /\ response' = NoReply
          /\ IF w.raised
             THEN /\ Raise("VisaIOError")
                  /\ log' = w.log
                  /\ UNCHANGED inscale
             ELSE /\ log' = Append(w.log, Sleep(StartSettleMs))
                  /\ inscale' = scale
                  /\ pc' = "fc_check"
                  /\ outcome' = "running"
                  /\ err' = ""
                  /\ retval' = NoValue

\* line 290: return inscale; to setSimpleScale when it made the call, which
\* drops the value, goes on with its second run, and returns 1 after that
FixClippingReturn(last) ==
    IF frame.op # "setSimpleScale"
    THEN Return(FloatValue(inscale)) /\ UNCHANGED runs
    ELSE /\ runs' = Append(runs, RunRecord(last))
         /\ IF Len(runs) = 0
            THEN pc' = "ss_second" /\ UNCHANGED <<outcome, err, retval>>
            ELSE Return(IntValue(1))

\* lines 281-283: apply the starting scale, sleep 2 s, inscale = scale
CallFixClipping ==
    /\ Fresh
    /\ \E a \in FixArgs, scale \in StartScales, delivered \in BOOLEAN :
         LET m == ScaleWrite(a.channel, scale)
             w == write(<<>>, m, delivered)
         IN /\ Begin("fixClipping", a.index, a.channel, scale)
            /\ Deliver(m, delivered)
            /\ firstMsg' = IF delivered THEN FirstOf(m) ELSE firstMsg
            /\ faulted' = ~delivered
            /\ sim' = delivered
            /\ response' = NoReply
            /\ IF w.raised
               THEN /\ Raise("VisaIOError")
                    /\ log' = w.log
                    /\ UNCHANGED inscale
               ELSE /\ log' = Append(w.log, Sleep(StartSettleMs))
                    /\ inscale' = scale
                    /\ pc' = "fc_check"
                    /\ outcome' = "running"
                    /\ err' = ""
                    /\ retval' = NoValue
    /\ UNCHANGED <<drv, fine, outstanding>>

\* line 284 and line 290: the loop test, and the return when it is false
FixClippingCheck ==
    /\ pc = "fc_check"
    /\ \E reply \in MeasReplies, answered \in BOOLEAN :
         LET q == ask(log, ResultQuery(frame.index), reply, answered)
         IN /\ log' = q.log
            /\ faulted' = (faulted \/ ~answered)
            /\ outstanding' = outstanding + q.pending
            /\ sim' = (sim /\ answered /\ reply = TrueMeas(frame.channel))
            /\ response' = IF answered THEN q.response ELSE response
            /\ sentinels' = IF answered /\ reply = Sentinel THEN sentinels + 1 ELSE sentinels
            /\ IF q.raised THEN Raise("VisaIOError") /\ UNCHANGED runs
               ELSE IF checkClipping(q.response)
               THEN /\ pc' = "fc_read"
                    /\ UNCHANGED <<outcome, err, retval, runs>>
               ELSE FixClippingReturn(q.response)
    /\ UNCHANGED <<drv, inst, frame, inscale, firstMsg, polls, iters, seenScale, fine>>

\* lines 285-286: read the scale back, inscale = 1.25 * float(inscale[:-1])
FixClippingRead ==
    /\ pc = "fc_read"
    /\ iters < MaxIter
    /\ \E reply \in ScaleReplies(chanScale[frame.channel]), answered \in BOOLEAN :
         LET q == ask(log, ScaleQuery(frame.channel), reply, answered)
             f == ParseFloat(DropLast(q.response))
         IN /\ log' = q.log
            /\ faulted' = (faulted \/ ~answered)
            /\ outstanding' = outstanding + q.pending
            /\ sim' = (sim /\ answered /\ reply = ScaleReply(chanScale[frame.channel]))
            /\ response' = IF answered THEN q.response ELSE response
            /\ seenScale' = chanScale[frame.channel]
            /\ IF q.raised THEN Raise("VisaIOError") /\ UNCHANGED inscale
               ELSE IF ~f.ok THEN Raise("ValueError") /\ UNCHANGED inscale
               ELSE /\ inscale' = Grow(f.val)
                    /\ pc' = "fc_write"
                    /\ UNCHANGED <<outcome, err, retval>>
    /\ UNCHANGED <<drv, inst, frame, firstMsg, polls, iters, sentinels, fine, runs>>

\* lines 287-288: apply the new scale, sleep 3 s
FixClippingWrite ==
    /\ pc = "fc_write"
    /\ \E delivered \in BOOLEAN :
         LET m == ScaleWrite(frame.channel, inscale)
             w == write(log, m, delivered)
         IN /\ Deliver(m, delivered)
            /\ faulted' = (faulted \/ ~delivered)
            /\ sim' = (sim /\ delivered)
            /\ IF w.raised
               THEN /\ Raise("VisaIOError")
                    /\ log' = w.log
                    /\ UNCHANGED <<iters, polls>>
               ELSE /\ log' = Append(w.log, Sleep(StepSettleMs))
                    /\ pc' = "wait"
                    /\ iters' = iters + 1
                    /\ polls' = 0
                    /\ UNCHANGED <<outcome, err, retval>>
    /\ UNCHANGED <<drv, frame, inscale, firstMsg, seenScale, response, sentinels, fine, runs, outstanding>>

-----------------------------------------------------------------------------
(* wait(dt) *)

\* a wait that gives up after one poll, whatever the reply
opcComplete_once(reply) == TRUE

\* a test that takes every reply but "0\n" for completion
opcComplete_nonzero(reply) == reply # <<"0", LF>>

\* done == "1\n"
opcComplete(reply) == reply = OpcDone

\* the poll intervals the caller passes: the default, and 10 s
WaitDts == {DefaultWaitMs, FixWaitMs}

\* wait(dt) called on its own: the loop is entered, nothing is sent yet
CallWait ==
    /\ Fresh
    /\ \E dt \in WaitDts : frame' = [NoFrame EXCEPT !.op = "wait", !.dt = dt]
    /\ polls' = 0
    /\ iters' = 0
    /\ sentinels' = 0
    /\ seenScale' = 0
    /\ runs' = <<>>
    /\ log' = <<>>
    /\ response' = NoReply
    /\ faulted' = FALSE
    /\ sim' = TRUE
    /\ pc' = "wait"
    /\ outcome' = "running"
    /\ err' = ""
    /\ retval' = NoValue
    /\ UNCHANGED <<drv, inst, inscale, firstMsg, outstanding, fine>>

\* a loop that goes on with the read-back after the wait, without testing
AfterWait_readback == IF frame.op = "fixMathClipping" THEN "fm_read" ELSE "fc_read"

\* the loop test of the routine that called wait
AfterWait == IF frame.op = "fixMathClipping" THEN "fm_check" ELSE "fc_check"

\* one round of the loop: ask *OPC?, break on "1\n", else sleep dt
WaitPoll ==
    /\ pc = "wait"
    /\ \E reply \in OpcReplies, answered \in BOOLEAN :
         LET q == ask(log, OpcQuery, reply, answered)
         IN /\ (answered /\ ~opcComplete(reply)) => polls < MaxPolls
            /\ faulted' = (faulted \/ ~answered)
            /\ outstanding' = outstanding + q.pending
            /\ sim' = (sim /\ answered /\ reply # <<"1">>)
            /\ response' = IF answered THEN q.response ELSE response
            /\ IF q.raised
               THEN /\ Raise("VisaIOError")
                    /\ log' = q.log
                    /\ UNCHANGED polls
               ELSE IF opcComplete(q.response)
               THEN /\ log' = q.log
                    /\ UNCHANGED polls
                    /\ IF frame.op = "wait" THEN Return(NoValue)
                       ELSE pc' = AfterWait /\ UNCHANGED <<outcome, err, retval>>
               ELSE /\ log' = Append(q.log, Sleep(frame.dt))
                    /\ polls' = polls + 1
                    /\ UNCHANGED <<pc, outcome, err, retval>>
    /\ UNCHANGED <<drv, inst, frame, inscale, firstMsg, iters, seenScale, sentinels, fine, runs>>

-----------------------------------------------------------------------------
(* fixMathClipping(index, channel, scale) *)

\* lines 303-304: setMathScale(index=channel, scale=scale), sleep 2 s
CallFixMathClipping ==
    /\ Fresh
    /\ \E a \in FixArgs, scale \in StartScales, delivered \in BOOLEAN :
         LET m == MathScaleWrite(a.channel, scale)
             w == write(<<>>, m, delivered)
         IN /\ Begin("fixMathClipping", a.index, a.channel, scale)
            /\ Deliver(m, delivered)
            /\ firstMsg' = IF delivered THEN FirstOf(m) ELSE firstMsg
            /\ faulted' = ~delivered
            /\ sim' = delivered
            /\ response' = NoReply
            /\ IF w.raised
               THEN /\ Raise("VisaIOError")
                    /\ log' = w.log
               ELSE /\ log' = Append(w.log, Sleep(StartSettleMs))
                    /\ pc' = "fm_check"
                    /\ outcome' = "running"
                    /\ err' = ""
                    /\ retval' = NoValue
    /\ UNCHANGED <<drv, inscale, fine, outstanding>>

\* a fixMathClipping that returns its scale as fixClipping does
fixMathClippingResult_inscale(x) == FloatValue(x)

\* what fixMathClipping hands back with its local inscale = x: the routine
\* ends without a return statement
fixMathClippingResult(x) == NoValue

\* line 305: the loop test; the routine ends without a return statement
FixMathClippingCheck ==
    /\ pc = "fm_check"
    /\ \E reply \in MeasReplies, answered \in BOOLEAN :
         LET q == ask(log, ResultQuery(frame.index), reply, answered)
         IN /\ log' = q.log
            /\ faulted' = (faulted \/ ~answered)
            /\ outstanding' = outstanding + q.pending
            /\ sim' = (sim /\ answered)
            /\ response' = IF answered THEN q.response ELSE response
            /\ sentinels' = IF answered /\ reply = Sentinel THEN sentinels + 1 ELSE sentinels
            /\ IF q.raised THEN Raise("VisaIOError")
               ELSE IF checkClipping(q.response)
               THEN /\ pc' = "fm_read"
                    /\ UNCHANGED <<outcome, err, retval>>
               ELSE Return(fixMathClippingResult(inscale))
    /\ UNCHANGED <<drv, inst, frame, inscale, firstMsg, polls, iters, seenScale, fine, runs>>

\* lines 306-310: read the math scale back, inscale = 1.25 * float(inscale[:-1]),
\* then setMathScale(index=channel, div=inscale): a keyword setMathScale does
\* not have raises TypeError before anything is written
FixMathClippingStep ==
    /\ pc = "fm_read"
    /\ iters < MaxIter
    /\ \E reply \in ScaleReplies(mathScale[frame.channel]), answered \in BOOLEAN,
          delivered \in BOOLEAN :
         LET q == ask(log, MathScaleQuery(frame.channel), reply, answered)
             f == ParseFloat(DropLast(q.response))
             m == MathScaleWrite(frame.channel, Grow(f.val))
             w == write(q.log, m, delivered)
             sends == ~q.raised /\ f.ok /\ "div" \in SetMathScaleParams
         IN /\ ~sends => delivered
            /\ faulted' = (faulted \/ ~answered \/ (sends /\ ~delivered))
            /\ outstanding' = outstanding + q.pending
            /\ sim' = (sim /\ answered /\ reply = ScaleReply(mathScale[frame.channel]))
            /\ response' = IF answered THEN q.response ELSE response
            /\ seenScale' = mathScale[frame.channel]
            /\ Deliver(m, sends /\ delivered)
            /\ IF q.raised
               THEN Raise("VisaIOError") /\ log' = q.log /\ UNCHANGED <<inscale, iters, polls>>
               ELSE IF ~f.ok
               THEN Raise("ValueError") /\ log' = q.log /\ UNCHANGED <<inscale, iters, polls>>
               ELSE IF ~("div" \in SetMathScaleParams)
               THEN Raise("TypeError") /\ log' = q.log /\ inscale' = Grow(f.val)
                    /\ UNCHANGED <<iters, polls>>
               ELSE IF w.raised
               THEN Raise("VisaIOError") /\ log' = w.log /\ inscale' = Grow(f.val)
                    /\ UNCHANGED <<iters, polls>>
               ELSE /\ log' = Append(w.log, Sleep(StepSettleMs))
                    /\ inscale' = Grow(f.val)
                    /\ pc' = "wait"
                    /\ iters' = iters + 1
                    /\ polls' = 0
                    /\ UNCHANGED <<outcome, err, retval>>
    /\ UNCHANGED <<drv, frame, firstMsg, sentinels, fine, runs>>

-----------------------------------------------------------------------------
(* Configuration calls: they return to a caller who goes on *)

\* reset(): self.write("*RST")
CallReset ==
    /\ pc = "idle"
    /\ \E delivered \in BOOLEAN :
         LET w == write(<<>>, reset, delivered)
         IN /\ Begin("reset", 0, 0, 0)
            /\ log' = w.log
            /\ Deliver(reset, delivered)
            /\ faulted' = ~delivered
            /\ sim' = delivered
            /\ response' = NoReply
            /\ IF w.raised THEN Raise("VisaIOError") ELSE Resume(NoValue)
    /\ UNCHANGED <<drv, inscale, firstMsg, outstanding, fine>>

\* a sequence of writes that stops at a failed write and reports none
WriteSeq_unraised(l, ms, k) ==
    LET n == IF k < Len(ms) THEN k ELSE Len(ms)
    IN [log |-> l \o [i \in 1..(2 * n) |->
                        IF i % 2 = 1 THEN ms[(i + 1) \div 2] ELSE Sleep(WriteSettleMs)],
        raised |-> FALSE]

\* the writes ms one after the other on the trace l, of which the transport
\* delivers k before it fails (all of them when k is their number)
RECURSIVE WriteSeq(_, _, _)
WriteSeq(l, ms, k) ==
    IF ms = <<>> THEN [log |-> l, raised |-> FALSE]
    ELSE LET w == write(l, Head(ms), k > 0)
         IN IF w.raised THEN w ELSE WriteSeq(w.log, Tail(ms), k - 1)

\* simpleWaveform's defaults amp=1, freq=1e4, delay=1e-1 (units of 1e-5) and
\* the cycles=100 simpleSetup passes
SimpleAmp == 100000
SimpleFreq == 1000000000
SimpleDelay == 10000
SimpleCycles == 100

\* simpleEdgeTrigger(channel, level, coupl, mode)
SimpleEdgeTriggerMsgs(channel, level, coupl, mode) ==
    <<Trig("MODE", "NORM"), Trig("TYPE", "EDGE"), TrigSource(channel),
      Trig("EDGE:COUP", coupl), Trig("EDGE:SLOP", mode), TrigLevel(channel, level)>>

\* simpleWaveform(cycles=cycles, burst=burst) with its other defaults
SimpleWaveformMsgs(amp, cycles, burst, channel) ==
    <<Wgen("OUTP", "ON"), Wgen("FUNC", "SIN"), WgenSci("VOLT", amp),
      WgenSci("VOLT:OFFS", 0), WgenSci("FREQ", SimpleFreq),
      ScaleWrite(channel, amp \div 3), ChanOffset(channel, 0)>>
    \o (IF burst
        THEN <<Wgen("BURS", "ON"), BurstCount(cycles), WgenSci("BURS:ITIM", SimpleDelay)>>
        ELSE <<>>)

\* the writes of simpleSetup(burst, trig), in order
SimpleSetupMsgs(burst, trig) ==
    <<ChanStat(1, "ON"), ChanCoup(1, "ACLimit"), ChanStat(2, "ON"), ChanCoup(2, "DCLimit")>>
    \o SimpleEdgeTriggerMsgs(2, trig, "DC", "RISE")
    \o SimpleWaveformMsgs(SimpleAmp, SimpleCycles, burst, 2)

\* trigger levels the caller passes (units of 1e-5 V): the default 0, and 0.25
TrigLevels == {0, 25000}

\* simpleSetup(burst, trig): the writes in order; setWaveVoltage sets wavevolt
\* before its write; SimpleSetupStatus = True after the last write
CallSimpleSetup ==
    /\ pc = "idle"
    /\ \E burst \in BOOLEAN, trig \in TrigLevels :
         LET ms == SimpleSetupMsgs(burst, trig)
             volt == CHOOSE i \in 1..Len(ms) : ms[i].cmd = "WGEN:VOLT"
         IN \E k \in 0..Len(ms) :
              LET w == WriteSeq(<<>>, ms, k)
                  reached == ~WriteSeq(<<>>, SubSeq(ms, 1, volt - 1), k).raised
              IN /\ Begin("simpleSetup", 0, 0, 0)
                 /\ log' = w.log
                 /\ chanScale' = ChanAfterAll(chanScale, SubSeq(ms, 1, k))
                 /\ faulted' = (k < Len(ms))
                 /\ sim' = (k = Len(ms))
                 /\ response' = NoReply
                 /\ wavevolt' = IF reached THEN SimpleAmp ELSE wavevolt
                 /\ SimpleSetupStatus' = (SimpleSetupStatus \/ ~w.raised)
                 /\ IF w.raised THEN Raise("VisaIOError") ELSE Resume(NoValue)
    /\ UNCHANGED <<connected, SimpleMeasurementStatus, inscale, firstMsg, mathScale,
                   instStep, instT, outstanding, fine>>

\* the writes of setSimpleMeasurements(), in order: slots 1..4 on channel 1
\* and 5..8 on channel 2, then the measurement of six of the slots
SimpleMeasurementMsgs ==
    <<MeasSource(1, 1), MeasSource(2, 1), MeasSource(3, 1), MeasSource(4, 1),
      MeasSource(5, 2), MeasSource(6, 2), MeasSource(7, 2), MeasSource(8, 2),
      MeasMain(1, "PEAK"), MeasMain(5, "PEAK"), MeasMain(2, "FREQ"),
      MeasMain(6, "FREQ"), MeasMain(3, "MEAN"), MeasMain(7, "MEAN")>>

\* setSimpleMeasurements(): the writes in order; SimpleMeasurementStatus =
\* True after the last write
CallSetSimpleMeasurements ==
    /\ pc = "idle"
    /\ LET ms == SimpleMeasurementMsgs
       IN \E k \in 0..Len(ms) :
            LET w == WriteSeq(<<>>, ms, k)
            IN /\ Begin("setSimpleMeasurements", 0, 0, 0)
               /\ log' = w.log
               /\ faulted' = (k < Len(ms))
               /\ sim' = (k = Len(ms))
               /\ response' = NoReply
               /\ SimpleMeasurementStatus' = (SimpleMeasurementStatus \/ ~w.raised)
               /\ IF w.raised THEN Raise("VisaIOError") ELSE Resume(NoValue)
    /\ UNCHANGED <<connected, SimpleSetupStatus, wavevolt, inst, inscale, firstMsg,
                   outstanding, fine>>

\* amplitudes the caller passes (units of 1e-5 V): 0.02, and the default 0.25
WaveAmps == {2000, 25000}

\* setWaveVoltage(amp): self.wavevolt = amp, then the write
CallSetWaveVoltage ==
    /\ pc = "idle"
    /\ \E amp \in WaveAmps, delivered \in BOOLEAN :
         LET m == WgenSci("VOLT", amp)
             w == write(<<>>, m, delivered)
         IN /\ Begin("setWaveVoltage", 0, 0, 0)
            /\ wavevolt' = amp
            /\ log' = w.log
            /\ Deliver(m, delivered)
            /\ faulted' = ~delivered
            /\ sim' = delivered
            /\ response' = NoReply
            /\ IF w.raised THEN Raise("VisaIOError") ELSE Resume(NoValue)
    /\ UNCHANGED <<connected, SimpleMeasurementStatus, SimpleSetupStatus, inscale,
                   firstMsg, outstanding, fine>>

\* setSimpleScale(): return 0 while simpleSetup has not completed; else the
\* first correction run, on channel 2
CallSetSimpleScale ==
    /\ pc = "idle"
    /\ IF ~simpleScaleReady
       THEN /\ Begin("setSimpleScale", 0, 0, 0)
            /\ log' = <<>>
            /\ faulted' = FALSE
            /\ sim' = TRUE
            /\ response' = NoReply
            /\ Return(IntValue(0))
            /\ UNCHANGED <<inst, inscale>>
       ELSE LET a == SimpleScaleRuns[1]
            IN /\ Begin("setSimpleScale", a.index, a.channel, a.scale)
               /\ StartFix(a.channel, a.scale)
    /\ UNCHANGED <<drv, firstMsg, outstanding, fine>>

\* the second correction run of setSimpleScale, on channel 1; the trace and
\* the counters are those of the run in progress
SimpleScaleSecond ==
    /\ pc = "ss_second"
    /\ LET a == SimpleScaleRuns[2]
       IN /\ frame' = [frame EXCEPT !.index = a.index, !.channel = a.channel,
                                    !.scale = a.scale]
          /\ StartFix(a.channel, a.scale)
    /\ polls' = 0
    /\ iters' = 0
    /\ sentinels' = 0
    /\ seenScale' = 0
    /\ UNCHANGED <<drv, firstMsg, outstanding, fine, runs>>

-----------------------------------------------------------------------------
(* Get accessors *)

\* Some of the getters as the source has them: the query mnemonic, whether
\* it carries an index, the names the method binds (its parameters) and
\* the names its format arguments use, and whether the result of ask() is
\* returned.
Getters ==
    {[name |-> "getMeasurement", cmd |-> "MEAS:MAIN?", indexed |-> TRUE,
      bound |-> {"index"}, uses |-> {"index"}, returns |-> TRUE],
     [name |-> "getMeasurementResult", cmd |-> "MEAS:RES?", indexed |-> TRUE,
      bound |-> {"index"}, uses |-> {"index"}, returns |-> TRUE],
     [name |-> "getMeasurementSource", cmd |-> "MEAS:SOUR?", indexed |-> TRUE,
      bound |-> {"index"}, uses |-> {"index", "src"}, returns |-> TRUE],
     [name |-> "getChanCoupling", cmd |-> "CHAN:COUP?", indexed |-> TRUE,
      bound |-> {"channel"}, uses |-> {"channel"}, returns |-> FALSE],
     [name |-> "getSpecWavData", cmd |-> "SPEC:WAV:SPEC:DATA?", indexed |-> FALSE,
      bound |-> {}, uses |-> {}, returns |-> FALSE],
     [name |-> "getWaveVoltage", cmd |-> "WGEN:VOLT?", indexed |-> FALSE,
      bound |-> {}, uses |-> {}, returns |-> TRUE]}

GetterNames == {g.name : g \in Getters}
\* the query of getter g for index n
GetterQuery(g, n) == Msg("query", g.cmd, IF g.indexed THEN n ELSE 0, <<>>)
\* reply texts a getter's query may get
GetReplies == {Reading, <<"D", "C", "L", LF>>, EmptyLine}

\* a getter called on a fresh Session: the format arguments are evaluated (a
\* name the method does not bind raises NameError before anything is sent),
\* the query is asked, and the reply is returned where the source has a
\* return statement
CallGet ==
    /\ Fresh
    /\ \E g \in Getters, n \in {1, 2}, reply \in GetReplies, answered \in BOOLEAN :
         LET q == ask(<<>>, GetterQuery(g, n), reply, answered)
             sends == g.uses \subseteq g.bound
         IN /\ Begin(g.name, n, n, 0)
            /\ sim' = FALSE
            /\ IF ~sends
               THEN /\ Raise("NameError")
                    /\ log' = <<>>
                    /\ faulted' = FALSE
                    /\ response' = NoReply
                    /\ UNCHANGED outstanding
               ELSE /\ log' = q.log
                    /\ faulted' = ~answered
                    /\ outstanding' = outstanding + q.pending
                    /\ response' = IF answered THEN q.response ELSE NoReply
                    /\ IF q.raised THEN Raise("VisaIOError")
                       ELSE Return(IF g.returns THEN TextValue ELSE NoValue)
    /\ UNCHANGED <<drv, inst, inscale, firstMsg, fine>>

-----------------------------------------------------------------------------
(* The scale round trip: setVerticalScale(ch, v), getVerticalScale(ch), and  *)
(* once more with the value that came back.  The Session is constructed,     *)
(* the instrument is one with sub-millivolt steps, and v is a scale it       *)
(* supports.                                                                 *)

RoundTripInit ==
    /\ pc = "rt_idle"
    /\ connected = TRUE
    /\ SimpleMeasurementStatus = FALSE
    /\ SimpleSetupStatus = FALSE
    /\ wavevolt = 0
    /\ \E s \in FineSteps :
         /\ fine = [step |-> s, scale |-> [c \in Channels |-> FineQuantize(5 * PerMilli, s)]]
         /\ \E ch \in Channels, k \in 1..MaxMultiple :
              frame = [op |-> "roundTrip", index |-> 0, channel |-> ch,
                       scale |-> k * s, dt |-> 0]
    /\ inscale = 0
    /\ outcome = "none"
    /\ retval = NoValue
    /\ err = ""
    /\ log = <<>>
    /\ firstMsg = RstCmd
    /\ polls = 0
    /\ iters = 0
    /\ instStep = 1
    /\ instT = 15
    /\ chanScale = [c \in Channels |-> ResetScale(instStep)]
    /\ mathScale = [w \in MathWaves |-> ResetScale(instStep)]
    /\ sim = TRUE
    /\ faulted = FALSE
    /\ response = NoReply
    /\ sentinels = 0
    /\ seenScale = 0
    /\ outstanding = 0
    /\ runs = <<>>

\* setVerticalScale(channel, div): self.write("CHAN%i:SCAL %.3f" % (channel, div))
SetVerticalScale ==
    /\ pc = "rt_idle"
    /\ \E delivered \in BOOLEAN :
         LET m == ScaleWrite(frame.channel, frame.scale)
             w == write(log, m, delivered)
         IN /\ log' = w.log
            /\ fine' = IF delivered
                       THEN [fine EXCEPT !.scale[frame.channel] =
                                             FineApplied(m.arg, fine.step, @)]
                       ELSE fine
            /\ faulted' = ~delivered
            /\ IF w.raised THEN Raise("VisaIOError")
               ELSE /\ pc' = "rt_set"
                    /\ outcome' = "returned"
                    /\ err' = ""
                    /\ retval' = NoValue
    /\ UNCHANGED <<drv, inst, frame, inscale, firstMsg, polls, iters, sim, response,
                   sentinels, seenScale, outstanding, runs>>

\* getVerticalScale(channel): return self.ask("CHAN%i:SCAL?" % channel)
GetVerticalScale ==
    /\ pc = "rt_set"
    /\ \E answered \in BOOLEAN :
         LET q == ask(log, ScaleQuery(frame.channel),
                      FineReply(fine.scale[frame.channel]), answered)
         IN /\ log' = q.log
            /\ faulted' = ~answered
            /\ outstanding' = outstanding + q.pending
            /\ response' = IF answered THEN q.response ELSE response
            /\ IF q.raised THEN Raise("VisaIOError") /\ UNCHANGED iters
               ELSE /\ pc' = "rt_got"
                    /\ outcome' = "returned"
                    /\ err' = ""
                    /\ retval' = TextValue
                    /\ iters' = iters + 1
    /\ UNCHANGED <<drv, inst, frame, inscale, firstMsg, polls, sim, sentinels,
                   seenScale, runs, fine>>

\* the caller takes the number in the returned text as the next scale
PassBack ==
    /\ pc = "rt_got"
    /\ iters < 2
    /\ ParseFloat(response).ok
    /\ frame' = [frame EXCEPT !.scale = ParseFloat(response).val]
    /\ pc' = "rt_idle"
    /\ UNCHANGED <<drv, inst, inscale, outcome, retval, err, log, firstMsg, polls,
                   iters, sim, faulted, response, sentinels, seenScale, outstanding,
                   runs, fine>>

RoundTripNext ==
    \/ SetVerticalScale
    \/ GetVerticalScale
    \/ PassBack

RoundTripSpec == RoundTripInit /\ [][RoundTripNext]_vars

-----------------------------------------------------------------------------
(* One corrective step of fixClipping, from every scale the instrument can   *)
(* hold: the state of a run fixClipping(index, channel, r) whose first       *)
(* reading was the sentinel, against the instrument with 1 mV steps.         *)

StepInit ==
    /\ pc = "fc_read"
    /\ connected = TRUE
    /\ SimpleMeasurementStatus = FALSE
    /\ SimpleSetupStatus = FALSE
    /\ wavevolt = 0
    /\ instStep = 1
    /\ instT \in Thresholds
    /\ \E a \in FixArgs, r \in 1..MaxReadback :
         /\ frame = [op |-> "fixClipping", index |-> a.index, channel |-> a.channel,
                     scale |-> r * PerMilli, dt |-> FixWaitMs]
         /\ chanScale = [c \in Channels |->
                            IF c = a.channel THEN r ELSE ResetScale(instStep)]
         /\ log = <<ScaleWrite(a.channel, r * PerMilli), Sleep(WriteSettleMs),
                    Sleep(StartSettleMs), ResultQuery(a.index)>>
         /\ inscale = r * PerMilli
    /\ mathScale = [w \in MathWaves |-> ResetScale(instStep)]
    /\ outcome = "running"
    /\ retval = NoValue
    /\ err = ""
    /\ firstMsg = RstCmd
    /\ polls = 0
    /\ iters = 0
    /\ sim = TRUE
    /\ faulted = FALSE
    /\ response = Sentinel
    /\ sentinels = 1
    /\ seenScale = 0
    /\ outstanding = 0
    /\ runs = <<>>
    /\ fine = NoFine

StepNext ==
    \/ FixClippingRead
    \/ FixClippingWrite

StepSpec == StepInit /\ [][StepNext]_vars

-----------------------------------------------------------------------------

Next ==
    \/ Construct
    \/ CallCheckClipping
    \/ CallFixClipping
    \/ FixClippingCheck
    \/ FixClippingRead
    \/ FixClippingWrite
    \/ WaitPoll
    \/ CallFixMathClipping
    \/ FixMathClippingCheck
    \/ FixMathClippingStep
    \/ CallReset
    \/ CallWait
    \/ CallSimpleSetup
    \/ CallSetSimpleMeasurements
    \/ CallSetWaveVoltage
    \/ CallSetSimpleScale
    \/ SimpleScaleSecond
    \/ CallGet

Spec == Init /\ [][Next]_vars

-----------------------------------------------------------------------------
(* Notions the properties are stated in *)

\* positions of the transmissions of command c in the trace
Sent(c) == {i \in 1..Len(log) : log[i].cmd = c}
\* the last transmission of command c (Sent(c) is not empty)
LastSent(c) == log[CHOOSE i \in Sent(c) : \A j \in Sent(c) : j <= i]
\* the last entry of the trace is the transmission m
EndsWith(m) == Len(log) > 0 /\ log[Len(log)] = m
\* n rounds of a wait(dt) that did not complete: the poll, then the sleep
RECURSIVE Rounds(_, _)
Rounds(n, dt) == IF n = 0 THEN <<>> ELSE Rounds(n - 1, dt) \o <<OpcQuery, Sleep(dt)>>
\* the last n entries of the trace
LogTail(n) == SubSeq(log, Len(log) - n + 1, Len(log))
\* positions of the corrective scale writes of a run: all but the starting one
Corrective == {i \in Sent("CHAN:SCAL") : i > 1}
\* the scale (units of 1e-5 V) transmitted at position i of the trace
WireScale(i) == ParseFloat(log[i].arg).val
\* every measurement reading of the run so far was the sentinel
OnlySentinels == Cardinality(Sent("MEAS:RES?")) = sentinels
\* a run of fixClipping, called on its own or by setSimpleScale
InRun == frame.op \in {"fixClipping", "setSimpleScale"} /\ frame.channel # 0
\* entry b may follow entry a at position i of the trace of a run
MayFollow(i, a, b) ==
    IF a.cmd = "CHAN:SCAL" THEN b = Sleep(WriteSettleMs)
    ELSE IF a = Sleep(WriteSettleMs)
    THEN b = (IF i = 2 THEN Sleep(StartSettleMs) ELSE Sleep(StepSettleMs))
    ELSE IF a = Sleep(StartSettleMs) THEN b = ResultQuery(frame.index)
    ELSE IF a = ResultQuery(frame.index) THEN b = ScaleQuery(frame.channel)
    ELSE IF a = ScaleQuery(frame.channel)
    THEN b.kind = "write" /\ b.cmd = "CHAN:SCAL" /\ b.n = frame.channel
    ELSE IF a = Sleep(StepSettleMs) THEN b = OpcQuery
    ELSE IF a = OpcQuery THEN b \in {Sleep(frame.dt), ResultQuery(frame.index)}
    ELSE IF a = Sleep(frame.dt) THEN b = OpcQuery
    ELSE FALSE
\* the run has returned (to the caller, or to setSimpleScale)
RunReturned == InRun /\ pc \in {"done", "ss_second"}
\* the run of fixClipping in progress, or ended
InFix == frame.op = "fixClipping"
InFixMath == frame.op = "fixMathClipping"
\* the clipping threshold in units of 1e-5 V
ThresholdUnits == instT * PerMilli
\* the starting scale is a scale the instrument supports
StartSupported == Quantize(frame.scale, instStep) * PerMilli = frame.scale
\* a decimal number followed by exactly one line terminator
WellFormedScale(t) ==
    /\ Len(t) >= 2
    /\ t[Len(t)] = LF
    /\ t[Len(t) - 1] # LF
    /\ ParseFloat(DropLast(t)).ok

-----------------------------------------------------------------------------
(* C1: checkClipping(index) returns true exactly when the reply to the      *)
(* measurement query is the overflow sentinel text "9.91E+37\n", and false   *)
(* for every other reply text.                                               *)
C1_CheckClippingExact ==
    (pc = "done" /\ frame.op = "checkClipping") =>
        /\ retval.type = "bool"
        /\ retval.flag <=> (response = Sentinel)
        /\ EndsWith(ResultQuery(frame.index))

C1_Witness ==
    /\ pc = "done" /\ frame.op = "checkClipping"
    /\ response = Sentinel /\ retval.flag

(* C2 (as claimed): against the truthful quantizing instrument, a run of     *)
(* fixClipping started at a supported scale below the threshold returns a    *)
(* value >= T.                                                               *)
C2_ReturnAtLeastThreshold ==
    (pc = "done" /\ InFix /\ sim /\ StartSupported /\ frame.scale < ThresholdUnits) =>
        retval.num >= ThresholdUnits

(* C3 (as claimed): the scale put on the wire by a corrective write equals   *)
(* 1.25 times the scale read back in that iteration.                         *)
C3_WireIsGrownReadback ==
    (pc = "wait" /\ polls = 0 /\ InFix /\ sim) =>
        ParseFloat(LastSent("CHAN:SCAL").arg).val = Grow(ParseFloat(response).val)

(* C4 (as claimed): the value fixClipping returns is the scale in effect at  *)
(* the instrument at the moment of return (truthful instrument, supported    *)
(* starting scale).                                                          *)
C4_ReturnsAppliedScale ==
    (pc = "done" /\ InFix /\ sim /\ StartSupported) =>
        retval.num = chanScale[frame.channel] * PerMilli

(* C5 (as claimed): no corrective write of a run (of a positive scale)       *)
(* results in an instrument scale smaller than the scale read back just      *)
(* before it.                                                                *)
C5_ScaleNonDecreasing ==
    (pc = "wait" /\ InFix /\ inscale > 0) => chanScale[frame.channel] >= seenScale

(* C6: fixClipping fails open: a reading other than the sentinel ends the    *)
(* run at that point, with nothing sent after the measurement query; the     *)
(* loop body is entered only on the sentinel; a run whose first reading is   *)
(* no sentinel has written the starting scale only.                          *)
C6_FailsOpen ==
    InFix =>
        /\ (EndsWith(ResultQuery(frame.index)) /\ ~faulted) =>
               /\ (response # Sentinel) <=> (pc = "done")
               /\ (response = Sentinel) <=> (pc = "fc_read")
        /\ (pc = "done") => EndsWith(ResultQuery(frame.index))
        /\ (pc = "done" /\ sentinels = 0) =>
               log = <<ScaleWrite(frame.channel, frame.scale), Sleep(WriteSettleMs),
                       Sleep(StartSettleMs), ResultQuery(frame.index)>>

C6_Witness ==
    /\ pc = "done" /\ InFix
    /\ response = Garbage
    /\ sentinels >= 1

(* C7: *RST is the first message transmitted on every Session: construction  *)
(* writes it exactly once before it returns, so before any other operation.  *)
C7_ResetFirst ==
    /\ (firstMsg # NoMsg) => (firstMsg = RstCmd)
    /\ Fresh => (log = <<RstCmd, Sleep(WriteSettleMs)>>)
    /\ (frame.op \notin {"none", "__init__"}) => (firstMsg = RstCmd)

C7_Witness ==
    /\ pc = "done"
    /\ firstMsg = RstCmd
    /\ Len(log) > 0

(* C8 (as claimed): fixMathClipping completes a corrective write whenever    *)
(* clipping is detected, as fixClipping does: outside the read-back, the     *)
(* math scale has been written once more than the sentinel was read.         *)
C8_MathCorrectiveWrite ==
    (InFixMath /\ sentinels > 0 /\ pc # "fm_read" /\ sim /\ ~faulted) =>
        Cardinality(Sent("CALC:MATH:SCAL")) = sentinels + 1

(* C9 (as claimed): an empty reply makes ask() fail, and a scale read-back   *)
(* that is not a decimal number followed by exactly one line terminator      *)
(* ends the run in an error instead of yielding the next scale.              *)
C9_MalformedReplyRaises ==
    /\ (response \in {EmptyLine, <<>>}) => (pc = "failed")
    /\ (pc = "fc_write") => WellFormedScale(response)

(* C10: a transport failure aborts the operation with the transport error,   *)
(* the failed command is not transmitted again, and the instrument keeps     *)
(* the scale of the last write delivered (the reset scale when none was).    *)
C10_FailurePropagates ==
    /\ faulted => (pc = "failed" /\ outcome = "raised" /\ err = "VisaIOError")
    /\ \A i \in 1..(Len(log) - 1) : (log[i].kind # "sleep") => (log[i + 1] # log[i])
    /\ (faulted /\ InFix) =>
           chanScale[frame.channel] =
               IF Sent("CHAN:SCAL") = {} THEN ResetScale(instStep)
               ELSE Quantize(ParseFloat(LastSent("CHAN:SCAL").arg).val, instStep)

C10_Witness ==
    /\ faulted /\ InFix /\ pc = "failed"
    /\ iters >= 1
    /\ chanScale[frame.channel] > Quantize(frame.scale, instStep)

(* C11: write(command) transmits the command and then sleeps the fixed      *)
(* settling delay before it returns, so in every trace a transmitted write  *)
(* is followed at once by the settling sleep, before any next message; and  *)
(* write returns no value (reset() is write("*RST")).                       *)
C11_WriteSettles ==
    /\ \A i \in 1..Len(log) :
           (log[i].kind = "write") =>
               (i < Len(log) /\ log[i + 1] = Sleep(WriteSettleMs))
    /\ (pc = "idle" /\ frame.op = "reset") =>
           (retval = NoValue /\ log = <<RstCmd, Sleep(WriteSettleMs)>>)

C11_Witness ==
    /\ InFix /\ pc = "fc_check" /\ iters >= 1
    /\ \E i \in 1..(Len(log) - 2) :
           /\ log[i] = ScaleWrite(frame.channel, inscale)
           /\ log[i + 1] = Sleep(WriteSettleMs)
           /\ log[i + 2] = Sleep(StepSettleMs)

(* C12: wait(dt) polls *OPC? and returns as soon as, and only when, a poll  *)
(* is answered with the completion reply "1" (as the instrument sends it,   *)
(* with its line terminator); it polls at least once, sleeps dt once after  *)
(* each poll that did not complete, and does not sleep after the            *)
(* completing reply.                                                        *)
C12_WaitCompletion ==
    /\ (frame.op = "wait" /\ pc = "wait") =>
           /\ log = Rounds(polls, frame.dt)
           /\ polls > 0 => response # OpcDone
    /\ (frame.op = "wait" /\ pc = "done") =>
           /\ log = Rounds(polls, frame.dt) \o <<OpcQuery>>
           /\ response = OpcDone
           /\ retval = NoValue
    /\ (pc = "wait" /\ frame.op # "wait") =>
           /\ Len(log) >= 2 * polls + 1
           /\ LogTail(2 * polls + 1) = <<Sleep(StepSettleMs)>> \o Rounds(polls, frame.dt)
           /\ polls > 0 => response # OpcDone
    /\ (pc \in {"fc_check", "fm_check"} /\ iters > 0) =>
           /\ Len(log) >= 2 * polls + 2
           /\ LogTail(2 * polls + 2) =
                  <<Sleep(StepSettleMs)>> \o Rounds(polls, frame.dt) \o <<OpcQuery>>
           /\ response = OpcDone

C12_Witness ==
    /\ frame.op = "wait" /\ pc = "done"
    /\ polls >= 1
    /\ response = OpcDone

(* C13 (as claimed): while the slot reports nothing but the sentinel, every  *)
(* iteration transmits a strictly larger scale than the iteration before.    *)
C13_StrictGrowth ==
    (InFix /\ sim /\ OnlySentinels) =>
        \A i, j \in Corrective : (i < j) => (WireScale(i) < WireScale(j))

(* C14: wait() has no timeout and no bound on its polls: a wait in progress  *)
(* is left only by a poll answered with the completion reply or by a         *)
(* transport failure, and every other poll is followed by the sleep and the  *)
(* same wait; a correction run that has delivered a corrective write is in   *)
(* that wait, so it neither tests clipping again nor returns before the      *)
(* instrument reports completion.                                            *)
C14_WaitUnbounded ==
    [][/\ (pc = "wait") =>
            \/ /\ pc' = "wait"
               /\ log' = log \o <<OpcQuery, Sleep(frame.dt)>>
               /\ response' # OpcDone
            \/ /\ pc' = IF frame.op = "wait" THEN "done" ELSE AfterWait
               /\ log' = Append(log, OpcQuery)
               /\ response' = OpcDone
            \/ /\ pc' = "failed"
               /\ faulted'
       /\ (pc \in {"fc_write", "fm_read"} /\ iters' = iters + 1) => (pc' = "wait")
       /\ (pc # "wait" /\ pc' \in {"fc_check", "fm_check"}) => (iters' = 0)
      ]_vars

C14_Witness ==
    /\ InFix /\ pc = "wait"
    /\ iters >= 1 /\ polls >= 1
    /\ response = <<"0", LF>>

(* C15: setSimpleScale called while SimpleSetupStatus is false returns the   *)
(* sentinel 0 at once: no message is sent, the driver's fields and the       *)
(* instrument are as before; and it returns 1 only when SimpleSetupStatus    *)
(* was true at the call (the flag does not change during the operation).     *)
C15_GuardedNoOp ==
    [][/\ (pc = "idle" /\ frame'.op = "setSimpleScale" /\ ~SimpleSetupStatus) =>
            /\ pc' = "done"
            /\ retval' = IntValue(0)
            /\ log' = <<>>
            /\ UNCHANGED <<drv, inst, firstMsg, outstanding>>
       /\ (frame'.op = "setSimpleScale") => UNCHANGED SimpleSetupStatus
       /\ (retval' = IntValue(1)) => (frame'.op = "setSimpleScale" /\ SimpleSetupStatus)
      ]_vars

C15_Witness ==
    /\ frame.op = "setSimpleScale" /\ pc = "done"
    /\ ~SimpleSetupStatus
    /\ retval = IntValue(0)
    /\ wavevolt > 0

(* C16: when setSimpleScale returns 1 it has completed two correction runs   *)
(* in this order: on channel 2 with slot 5 from half the waveform amplitude  *)
(* last set, then on channel 1 with slot 1 from 0.01; and the last reading   *)
(* of each run, slot 5 and then slot 1, was no sentinel.                     *)
C16_BothRunsComplete ==
    (frame.op = "setSimpleScale" /\ retval = IntValue(1)) =>
        /\ pc = "done"
        /\ runs = <<[index |-> 5, channel |-> 2, scale |-> wavevolt \div 2,
                     clipped |-> FALSE],
                    [index |-> 1, channel |-> 1, scale |-> 1000, clipped |-> FALSE]>>
        /\ EndsWith(ResultQuery(1))
        /\ response # Sentinel

C16_Witness ==
    /\ frame.op = "setSimpleScale" /\ pc = "done"
    /\ retval = IntValue(1)
    /\ wavevolt = 2000
    /\ iters >= 1 /\ sim

(* C17 (as claimed): for a scale v the instrument supports,                  *)
(* setVerticalScale(ch, v) followed by getVerticalScale(ch) returns the      *)
(* supported scale nearest to v, and so does the round trip made again with  *)
(* the value returned.                                                       *)
C17_RoundTripNearest ==
    (frame.op = "roundTrip" /\ pc = "rt_got") =>
        ParseFloat(response).val = FineQuantize(frame.scale, fine.step)

(* C18 (as claimed): the connectivity flag is false whenever a transport     *)
(* failure has invalidated the Session of a constructed driver.              *)
C18_FlagFollowsSession ==
    (faulted /\ frame.op # "__init__") => ~connected

C20_StrictlyOrdered ==
    [][/\ outstanding' <= 1
       /\ (log' # log /\ log' # <<>>) => (outstanding = 0)
       /\ (outstanding' = 1) => (pc' = "failed" /\ log'[Len(log')].kind = "query")
      ]_vars

C20_Witness ==
    /\ outstanding = 1
    /\ pc = "failed"
    /\ frame.op = "setSimpleScale"
    /\ EndsWith(OpcQuery)

(* C21 (as claimed): every get accessor issues exactly one query, built from *)
(* its mnemonic and index, and returns the raw reply of that query to the    *)
(* caller: whenever the transport answers, the call ends with the reply as   *)
(* its value.                                                                *)
C21_GetterReturnsReply ==
    (frame.op \in GetterNames /\ pc \in {"done", "failed"} /\ ~faulted) =>
        /\ pc = "done"
        /\ Cardinality({i \in 1..Len(log) : log[i].kind = "query"}) = 1
        /\ response # NoReply
        /\ retval = TextValue

(* C22: the messages of a fixClipping run follow a fixed order: the start    *)
(* scale write and the settling pause, then repeatedly the measurement read  *)
(* and, on the sentinel only, scale read-back, scale write, settling pause,  *)
(* completion wait.  So every measurement read after a corrective write      *)
(* comes directly after a poll that received the completion reply, and the   *)
(* first measurement read comes after the settling pause with no poll        *)
(* before it.                                                                *)
C22_FixedOrder ==
    InRun =>
        /\ (Len(log) > 0) => (log[1] = ScaleWrite(frame.channel, frame.scale))
        /\ \A i \in 1..(Len(log) - 1) : MayFollow(i, log[i], log[i + 1])
        /\ \A i \in 1..Len(log) :
               (log[i] = OpcQuery) => \E j \in 1..(i - 1) : log[j] = ScaleQuery(frame.channel)
        /\ (pc = "fc_check" /\ iters > 0) => (EndsWith(OpcQuery) /\ response = OpcDone)
        /\ (pc = "fc_check" /\ iters = 0) => EndsWith(Sleep(StartSettleMs))
        /\ (pc = "fc_read") => (EndsWith(ResultQuery(frame.index)) /\ response = Sentinel)

C22_Witness ==
    /\ InFix /\ pc = "done"
    /\ iters = 2 /\ polls >= 1
    /\ Cardinality(Sent("MEAS:RES?")) = 3

(* C23 (as claimed): for every positive scale r the instrument reports on    *)
(* read-back, the scale text of the corrective write (1.25 * r with three    *)
(* decimals) denotes a value strictly greater than r.                        *)
C23_StepProgress ==
    (InFix /\ pc = "wait" /\ polls = 0 /\ sim /\ seenScale > 0) =>
        ParseFloat(LastSent("CHAN:SCAL").arg).val > seenScale * PerMilli

(* C24: counting invariant of a fixClipping run: at every point the scale    *)
(* writes sent are at most 1 plus the sentinel readings seen; when the run   *)
(* returns, the scale writes are exactly 1 plus the sentinel readings, the   *)
(* scale read-backs as many as the sentinel readings, and the measurement    *)
(* reads one more than the sentinel readings.                                *)
C24_Counting ==
    /\ InRun => Cardinality(Sent("CHAN:SCAL")) <= 1 + sentinels
    /\ RunReturned =>
           /\ Cardinality(Sent("CHAN:SCAL")) = 1 + sentinels
           /\ Cardinality(Sent("CHAN:SCAL?")) = sentinels
           /\ Cardinality(Sent("MEAS:RES?")) = sentinels + 1

C24_Witness ==
    /\ InFix /\ pc = "done"
    /\ sentinels = 2
    /\ Cardinality(Sent("CHAN:SCAL")) = 3

(* C25: frame of fixClipping(index, channel, scale): at every step of a run  *)
(* the only writes in its trace are vertical-scale writes for channel, its   *)
(* queries are the read of slot index, the scale read-back of channel and    *)
(* the completion poll; the instrument's scale of every other channel and    *)
(* of the math waveforms stays as it was, and so do the driver's fields      *)
(* SimpleSetupStatus, SimpleMeasurementStatus and wavevolt.                  *)
C25_Frame ==
    [][(frame'.op \in {"fixClipping", "setSimpleScale"} /\ frame'.channel # 0) =>
           /\ \A i \in 1..Len(log') :
                  /\ (log'[i].kind = "write") =>
                         (log'[i].cmd = "CHAN:SCAL" /\ log'[i].n = frame'.channel)
                  /\ (log'[i].kind = "query") =>
                         log'[i] \in {ResultQuery(frame'.index),
                                      ScaleQuery(frame'.channel), OpcQuery}
           /\ \A c \in Channels \ {frame'.channel} : chanScale'[c] = chanScale[c]
           /\ UNCHANGED <<mathScale, drv>>
      ]_vars

C25_Witness ==
    /\ frame.op = "setSimpleScale" /\ frame.channel = 1 /\ pc = "done"
    /\ SimpleSetupStatus /\ wavevolt = 2000
    /\ iters >= 1
    /\ chanScale[1] # ResetScale(instStep)
    /\ chanScale[2] # ResetScale(instStep)

\* the writes of the trace l, in order
Writes(l) == SelectSeq(l, LAMBDA m : m.kind = "write")

(* C26: lifecycle of the guard flags: both are false when construction has   *)
(* ended; SimpleSetupStatus goes from false to true only in a simpleSetup    *)
(* that returned with every one of its writes transmitted, and a simpleSetup *)
(* that raised leaves it as it was; likewise SimpleMeasurementStatus and     *)
(* setSimpleMeasurements; no step, reset() included, takes a flag from true  *)
(* to false, and a setSimpleScale() called after a reset() with              *)
(* SimpleSetupStatus true starts its first correction run.                   *)
C26_FlagLifecycle ==
    [][/\ (pc = "new") => (~SimpleSetupStatus' /\ ~SimpleMeasurementStatus')
       /\ (~SimpleSetupStatus /\ SimpleSetupStatus') =>
              /\ frame'.op = "simpleSetup" /\ pc' = "idle"
              /\ \E burst \in BOOLEAN, trig \in TrigLevels :
                     Writes(log') = SimpleSetupMsgs(burst, trig)
       /\ (pc = "idle" /\ frame'.op = "simpleSetup" /\ pc' = "failed") =>
              SimpleSetupStatus' = SimpleSetupStatus
       /\ (~SimpleMeasurementStatus /\ SimpleMeasurementStatus') =>
              /\ frame'.op = "setSimpleMeasurements" /\ pc' = "idle"
              /\ Writes(log') = SimpleMeasurementMsgs
       /\ (pc = "idle" /\ frame'.op = "setSimpleMeasurements" /\ pc' = "failed") =>
              SimpleMeasurementStatus' = SimpleMeasurementStatus
       /\ SimpleSetupStatus => SimpleSetupStatus'
       /\ SimpleMeasurementStatus => SimpleMeasurementStatus'
       /\ (pc = "idle" /\ frame.op = "reset" /\ SimpleSetupStatus
             /\ frame'.op = "setSimpleScale") =>
              /\ frame'.channel = 2
              /\ Len(log') > 0 => log'[1] = ScaleWrite(2, wavevolt \div 2)
              /\ ~(pc' = "done" /\ retval' = IntValue(0))
      ]_vars

C26_Witness ==
    /\ pc = "idle" /\ frame.op = "reset" /\ ~faulted
    /\ SimpleSetupStatus /\ SimpleMeasurementStatus
    /\ \A c \in Channels : chanScale[c] = ResetScale(instStep)

====
